---- MODULE Spec2Model ----
(***************************************************************************)
(* A model of the telemetry daemon core in src/src/telemdaemon.c: the      *)
(* client list and the poll array, the per-connection record framer        *)
(* (handle_client), the record decoder (process_record), the stager        *)
(* (stage_record) and the machine-id helpers.                              *)
(*                                                                         *)
(* Bytes are the integers 0..255, strings are sequences of bytes, uint32   *)
(* fields are four little-endian bytes.  Offsets into buffers are 0-based  *)
(* as in the C source; TLA+ sequences are 1-based, so the byte at offset   *)
(* k of s is s[k+1].                                                       *)
(***************************************************************************)
EXTENDS Integers, Sequences, FiniteSets, TLC

(***************************************************************************)
(* Bounds of the model.                                                    *)
(***************************************************************************)
\* the largest number of connections that are live at the same time
MaxClients == 2
\* the same, where only the client list and the poll array are exercised
MaxTable == 3
\* handle_client is explored while the spool holds fewer files than this
MaxSpool == 1
\* the number of headers of the schema (scaled down from the real schema)
NUM_HEADERS == 2
\* the age, in ticks of the clock, above which the machine id has expired
\* (scaled down from the real expiry window)
TM_MACHINE_ID_EXPIRY == 2

(***************************************************************************)
(* Program constants.                                                      *)
(***************************************************************************)
RECORD_SIZE_LEN == 4
SIZEOF_UINT32 == 4
CFG_PREFIX_LENGTH == 4
PATH_MAX == 4096
MAX_PAYLOAD_LENGTH == 8192
HEADER_LINE_ALLOWANCE == 80
SIZEOF_POLLFD == 8
MACHINE_ID_LEN == 32
NUL == 0
NL == 10
SP == 32
COLON == 58
ZERO_CHAR == 48
POLLIN == 1
POLLPRI == 2

MAX_RECORD_SIZE ==
    2 * SIZEOF_UINT32 + CFG_PREFIX_LENGTH + PATH_MAX + MAX_PAYLOAD_LENGTH
        + NUM_HEADERS * HEADER_LINE_ALLOWANCE

\* "CFG:", and the same four bytes read as a little-endian uint32
CFG_PREFIX == <<67, 70, 71, 58>>

\* a null pointer to a string or a buffer (no byte is negative)
NULL == <<-1>>
\* a null client pointer (no descriptor is negative)
NULLPTR == 0 - 1
\* the value of a field that was never assigned
UNINIT == 0 - 2

(***************************************************************************)
(* Bytes, integers and strings.                                            *)
(***************************************************************************)
Min(S) == CHOOSE x \in S : \A y \in S : x <= y

\* the four bytes of a uint32 in host (little-endian) order
U32(v) == << v % 256, (v \div 256) % 256, (v \div 65536) % 256,
             (v \div 16777216) % 256 >>

\* the uint32 that four bytes in host order stand for
LE32(b) == b[1] + 256 * b[2] + 65536 * b[3] + 16777216 * b[4]

CFG_PREFIX_32BIT == LE32(CFG_PREFIX)

Take(s, n) == SubSeq(s, 1, IF n < Len(s) THEN n ELSE Len(s))

Drop(s, n) == SubSeq(s, n + 1, Len(s))

RECURSIVE Concat(_)
\* the concatenation of a sequence of strings
Concat(ss) == IF ss = <<>> THEN <<>> ELSE Head(ss) \o Concat(Tail(ss))

Range(s) == { s[k] : k \in DOMAIN s }

(***************************************************************************)
(* The client list (a LIST of client structs, newest first).               *)
(***************************************************************************)
NewClient(fd) == [fd |-> fd, offset |-> 0, buf |-> NULL, size |-> UNINIT]

\* add_client that links the new client at the tail of the list
add_client_at_tail(head, fd, malloc_ok) ==
    IF malloc_ok
        THEN [head |-> head \o <<NewClient(fd)>>, cl |-> fd]
        ELSE [head |-> head, cl |-> NULLPTR]

\* add_client: the list and the returned pointer (the descriptor names the
\* client; NULLPTR when malloc failed)
add_client(head, fd, malloc_ok) ==
    IF malloc_ok
        THEN [head |-> <<NewClient(fd)>> \o head, cl |-> fd]
        ELSE [head |-> head, cl |-> NULLPTR]

\* remove_client without its LIST_REMOVE
remove_client_keeps(head, fd) == head

\* remove_client that unlinks the first client of the list
remove_client_first(head, fd) == Tail(head)

\* LIST_REMOVE, free(cl->buf), close(cl->fd), free(cl)
remove_client(head, fd) ==
    SelectSeq(head, LAMBDA c : c.fd # fd)

is_client_list_empty(head) == head = <<>>

ClientFds(head) == { head[k].fd : k \in DOMAIN head }

\* the client the pointer cl (a descriptor) points to
ClientOf(head, fd) == head[CHOOSE k \in DOMAIN head : head[k].fd = fd]

\* the list with the client cl replaced by c
SetClient(head, fd, c) ==
    [k \in DOMAIN head |-> IF head[k].fd = fd THEN c ELSE head[k]]

(***************************************************************************)
(* The poll array: pollfds holds current_alloc / sizeof(struct pollfd)     *)
(* cells, of which the first nfds are in use.                              *)
(***************************************************************************)
PollEntry(fd, events) == [fd |-> fd, events |-> events, revents |-> 0]

\* util.c reallocate: grows the block when more is requested than it holds
reallocate(cells, alloc, requested) ==
    IF requested > alloc
        THEN [cells |-> cells \o [k \in 1..((requested - alloc) \div SIZEOF_POLLFD)
                                     |-> PollEntry(UNINIT, UNINIT)],
              alloc |-> requested]
        ELSE [cells |-> cells, alloc |-> alloc]

\* add_pollfd: exit is TRUE when the allocation failed and the process exits
add_pollfd(cells, n, alloc, fd, events, malloc_ok) ==
    IF ~malloc_ok
        THEN [exit |-> TRUE, cells |-> cells, nfds |-> n, alloc |-> alloc]
        ELSE LET r == IF cells = <<>>
                        THEN [cells |-> <<PollEntry(UNINIT, UNINIT)>>,
                              alloc |-> SIZEOF_POLLFD]
                        ELSE reallocate(cells, alloc, (n + 1) * SIZEOF_POLLFD)
             IN  [exit |-> FALSE,
                  cells |-> [r.cells EXCEPT ![n + 1] = PollEntry(fd, events)],
                  nfds |-> n + 1,
                  alloc |-> r.alloc]

\* memmove(&cells[dst], &cells[src], count cells)
memmove(cells, dst, src, count) ==
    [k \in DOMAIN cells |->
        IF k - 1 >= dst /\ k - 1 < dst + count
            THEN cells[(k - 1) - dst + src + 1]
            ELSE cells[k]]

\* del_pollfd without daemon->nfds--
del_pollfd_keeps_nfds(cells, n, i) ==
    [cells |-> IF i < n - 1 THEN memmove(cells, i, i + 1, n - i - 1) ELSE cells,
     nfds |-> n]

\* del_pollfd that moves one entry too few
del_pollfd_short(cells, n, i) ==
    [cells |-> IF i < n - 1 THEN memmove(cells, i, i + 1, n - i - 2) ELSE cells,
     nfds |-> n - 1]

\* del_pollfd (i < nfds is asserted by the code)
del_pollfd(cells, n, i) ==
    [cells |-> IF i < n - 1 THEN memmove(cells, i, i + 1, n - i - 1) ELSE cells,
     nfds |-> n - 1]

\* terminate_client that deletes the first poll entry instead of index
terminate_client_first_entry(head, cells, n, fd, index) ==
    LET p == del_pollfd(cells, n, 0)
    IN  [head |-> remove_client(head, fd), cells |-> p.cells, nfds |-> p.nfds]

\* terminate_client: del_pollfd, then remove_client
terminate_client(head, cells, n, fd, index) ==
    LET p == del_pollfd(cells, n, index)
    IN  [head |-> remove_client(head, fd), cells |-> p.cells, nfds |-> p.nfds]

\* the entries in use, in order
PollSet(cells, n) == SubSeq(cells, 1, n)

(***************************************************************************)
(* The machine id.  The id file is [exists, content, mtime]; the override   *)
(* is a string or NULL.                                                    *)
(***************************************************************************)
IsSpace(b) == b \in {SP, NL, 9, 11, 12, 13}

\* fscanf("%32s"): skip white space, then take at most 32 bytes that are not
\* white space; <<>> when the input ends before any such byte
Scan32s(content) ==
    LET starts == { k \in DOMAIN content : ~IsSpace(content[k]) }
    IN  IF starts = {} THEN <<>>
        ELSE LET s == Min(starts)
                 stops == { k \in s..Len(content) : IsSpace(content[k]) }
                 e == IF stops = {} THEN Len(content) ELSE Min(stops) - 1
             IN  Take(SubSeq(content, s, e), MACHINE_ID_LEN)

\* get_machine_id: fopen, fscanf, fclose
get_machine_id(idf, fopen_ok) ==
    IF ~idf.exists \/ ~fopen_ok
        THEN [ok |-> FALSE, id |-> <<>>]
        ELSE LET t == Scan32s(idf.content)
             IN  [ok |-> t # <<>>, id |-> t]

\* read_machine_id_override on an override file that exists and is not
\* empty: at most 32 bytes, cut at the first newline
read_machine_id_override(content) ==
    LET first == Take(content, MACHINE_ID_LEN)
        nls == { k \in DOMAIN first : first[k] = NL }
    IN  IF content = <<>> THEN NULL
        ELSE IF nls = {} THEN first ELSE SubSeq(first, 1, Min(nls) - 1)

\* machine_id_write at time t: fopen "w" truncates the file, fprintf writes
\* the id; the result is 0 or -1
machine_id_write(idf, new_id, fopen_ok, fprintf_ok, t) ==
    IF ~fopen_ok THEN [result |-> 0 - 1, idf |-> idf]
    ELSE IF ~fprintf_ok
        THEN [result |-> 0 - 1, idf |-> [exists |-> TRUE, content |-> <<>>, mtime |-> t]]
    ELSE [result |-> 0, idf |-> [exists |-> TRUE, content |-> new_id, mtime |-> t]]

\* generate_machine_id: new_id is what get_random_id gave, NULL when it failed
generate_machine_id(idf, new_id, fopen_ok, fprintf_ok, t) ==
    IF new_id = NULL THEN [result |-> 0 - 1, idf |-> idf]
    ELSE machine_id_write(idf, new_id, fopen_ok, fprintf_ok, t)

\* update_machine_id that takes an age equal to the expiry for expired
update_machine_id_at_expiry(idf, stat, new_id, fopen_ok, fprintf_ok, t) ==
    LET g == generate_machine_id(idf, new_id, fopen_ok, fprintf_ok, t)
    IN  IF stat = "ENOENT" \/ (stat = "ok" /\ t - idf.mtime >= TM_MACHINE_ID_EXPIRY)
            THEN [result |-> g.result, generated |-> TRUE, idf |-> g.idf]
        ELSE [result |-> IF stat = "ok" THEN 0 ELSE 0 - 1, generated |-> FALSE,
              idf |-> idf]

\* update_machine_id at time t: stat is what stat(2) said ("ok", "ENOENT" or
\* "error"); generated tells whether generate_machine_id was called
update_machine_id(idf, stat, new_id, fopen_ok, fprintf_ok, t) ==
    LET g == generate_machine_id(idf, new_id, fopen_ok, fprintf_ok, t)
    IN  IF stat = "ENOENT"
            THEN [result |-> g.result, generated |-> TRUE, idf |-> g.idf]
        ELSE IF stat = "error"
            THEN [result |-> 0 - 1, generated |-> FALSE, idf |-> idf]
        ELSE IF t - idf.mtime > TM_MACHINE_ID_EXPIRY
            THEN [result |-> g.result, generated |-> TRUE, idf |-> g.idf]
        ELSE [result |-> 0, generated |-> FALSE, idf |-> idf]

\* "machine_id", the name of the header the daemon fills in
TM_MACHINE_ID_STR == <<77>>

\* machine_id_replace that reads the id file even when an override is set
machine_id_replace_no_override(override, idf, fopen_ok) ==
    LET g == get_machine_id(idf, fopen_ok)
    IN  TM_MACHINE_ID_STR \o <<COLON, SP>> \o (IF g.ok THEN g.id ELSE <<ZERO_CHAR>>)

\* machine_id_replace: the new header line (asprintf "%s: %s")
machine_id_replace(override, idf, fopen_ok) ==
    LET g == get_machine_id(idf, fopen_ok)
        machine_id == IF override # NULL THEN Take(override, MACHINE_ID_LEN)
                      ELSE IF g.ok THEN g.id
                      ELSE <<ZERO_CHAR>>
    IN  TM_MACHINE_ID_STR \o <<COLON, SP>> \o machine_id

(***************************************************************************)
(* The header schema (util.c, common.h).                                   *)
(***************************************************************************)
\* the index of the machine-id header in the schema
MACHINE_ID_INDEX == 1

\* get_header_name: one-letter names, "M" for the machine id
get_header_name(i) == IF i = MACHINE_ID_INDEX THEN TM_MACHINE_ID_STR ELSE <<65 + i>>

\* get_header: the line is the header when it starts with "<name>: "
get_header(tok, header_name) ==
    /\ tok # NULL
    /\ Len(tok) >= Len(header_name) + 2
    /\ SubSeq(tok, 1, Len(header_name) + 2) = header_name \o <<COLON, SP>>

RECURSIVE strtok_all(_, _)
\* every token that successive strtok calls return: the maximal runs of
\* bytes other than the delimiter
strtok_all(s, delim) ==
    IF s = <<>> THEN <<>>
    ELSE IF s[1] = delim THEN strtok_all(Tail(s), delim)
    ELSE LET stops == { k \in DOMAIN s : s[k] = delim }
             e == IF stops = {} THEN Len(s) ELSE Min(stops) - 1
         IN  <<SubSeq(s, 1, e)>> \o strtok_all(Drop(s, e + 1), delim)

(***************************************************************************)
(* The stager.  A fault names the one library call that fails.             *)
(***************************************************************************)
\* stage_record that does not write the config line
stage_record_no_cfg(headers, body, cfg_file, fault) ==
    IF fault \in { "mkstemp", "fdopen" } THEN [file |-> FALSE, content |-> <<>>]
    ELSE IF fault = "fdopen_unlink" THEN [file |-> TRUE, content |-> <<>>]
    ELSE [file |-> TRUE,
          content |-> Concat([i \in 1..NUM_HEADERS |-> headers[i] \o <<NL>>])
                      \o (IF fault = "fprintf" THEN <<>> ELSE body \o <<NL>>)]

\* stage_record: whether a file is left in the spool, and its content.
\* mkstemp fails: no file.  fdopen fails: the file is unlinked, or stays
\* (empty) when unlink fails too.  The fprintf of the body fails (its result
\* is not looked at): the file stays with what was written before.
stage_record(headers, body, cfg_file, fault) ==
    IF fault = "mkstemp" THEN [file |-> FALSE, content |-> <<>>]
    ELSE IF fault = "fdopen" THEN [file |-> FALSE, content |-> <<>>]
    ELSE IF fault = "fdopen_unlink" THEN [file |-> TRUE, content |-> <<>>]
    ELSE [file |-> TRUE,
          content |-> (IF cfg_file # NULL THEN CFG_PREFIX \o cfg_file \o <<NL>>
                                         ELSE <<>>)
                      \o Concat([i \in 1..NUM_HEADERS |-> headers[i] \o <<NL>>])
                      \o (IF fault = "fprintf" THEN <<>> ELSE body \o <<NL>>)]

(***************************************************************************)
(* The decoder.  data is the record buffer (cl->size bytes); tail stands   *)
(* for the memory that follows the buffer, which a read past its end sees. *)
(* env = [asserts, fault, tail, segv]: whether assert is compiled in, the  *)
(* library call that fails, the memory after the buffer, and whether a     *)
(* read outside the buffer faults.                                         *)
(***************************************************************************)
\* the byte at offset off of the buffer (off >= 0)
MemAt(data, tail, off) ==
    IF off < Len(data) THEN data[off + 1]
    ELSE tail[((off - Len(data)) % Len(tail)) + 1]

MemBytes(data, tail, off, n) == [k \in 1..n |-> MemAt(data, tail, off + k - 1)]

\* strlen of the string at offset off
StrLenAt(data, tail, off) ==
    Min({ n \in 0..(Len(data) + Len(tail)) : MemAt(data, tail, off + n) = NUL })

\* the number of bytes strndup(off, n) copies
StrnLenAt(data, tail, off, n) ==
    LET l == StrLenAt(data, tail, off) IN IF l < n THEN l ELSE n

\* the token the (i+1)-th strtok call returns: NULL when the tokens are used up
tok_at(toks, i) == IF i < Len(toks) THEN toks[i + 1] ELSE NULL

\* lines 346-353: the optional config tag at the start of the buffer
cfg_tag(data, tail) ==
    LET has_cfg == LE32(MemBytes(data, tail, 0, SIZEOF_UINT32)) = CFG_PREFIX_32BIT
        cfg_len == IF has_cfg THEN StrLenAt(data, tail, CFG_PREFIX_LENGTH) ELSE 0
    IN  [has_cfg |-> has_cfg,
         cfg_len |-> cfg_len,
         cfg_file |-> IF has_cfg THEN MemBytes(data, tail, CFG_PREFIX_LENGTH, cfg_len)
                      ELSE NULL,
         cfg_info_size |-> IF has_cfg THEN CFG_PREFIX_LENGTH + cfg_len + 1 ELSE 0]

\* line 357: a size_t, the difference modulo 2^64, which is zero only when
\* the difference is
message_size_of(size, cfg_info_size, header_size) ==
    size - (cfg_info_size + header_size)

\* line 384: the offset of the body in the buffer (msg + header_size)
body_offset(cfg_info_size, header_size) ==
    cfg_info_size + SIZEOF_UINT32 + header_size

\* lines 369-382: the value of i when the loop over the schema ends, which
\* is NUM_HEADERS when every get_header succeeded
\* the loop with its else branch left out: it goes on after a failed get_header
headers_loop_end_goes_on(toks) == NUM_HEADERS

headers_loop_end(toks) ==
    LET bad == { i \in 0..(NUM_HEADERS - 1) :
                     ~get_header(tok_at(toks, i), get_header_name(i)) }
    IN  IF bad = {} THEN NUM_HEADERS ELSE Min(bad)

\* process_record: what it computes and how it ends
process_record(override, idf, data, size, env) ==
    LET tail == env.tail
        tag == cfg_tag(data, tail)
        cfg_info_size == tag.cfg_info_size
        header_size == LE32(MemBytes(data, tail, cfg_info_size, SIZEOF_UINT32))
        message_size == message_size_of(size, cfg_info_size, header_size)
        msg == cfg_info_size + SIZEOF_UINT32
        hlen == StrnLenAt(data, tail, msg, header_size)
        temp_headers == IF env.fault = "strndup" THEN NULL
                        ELSE MemBytes(data, tail, msg, hlen)
        toks == IF temp_headers = NULL THEN <<>> ELSE strtok_all(temp_headers, NL)
        i_end == headers_loop_end(toks)
        replaced == { i \in 0..(i_end - 1) : get_header_name(i) = TM_MACHINE_ID_STR }
        headers == [k \in 1..i_end |->
                      IF (k - 1) \in replaced
                          THEN machine_id_replace(override, idf, env.fault # "fopen_id")
                          ELSE tok_at(toks, k - 1)]
        body_off == body_offset(cfg_info_size, header_size)
        body_len == StrLenAt(data, tail, body_off)
        body == MemBytes(data, tail, body_off, body_len)
        staged == stage_record(headers, body, tag.cfg_file, env.fault)
        \* reads outside [0, size)
        oob_magic == SIZEOF_UINT32 > size
        oob_cfg == tag.has_cfg /\ CFG_PREFIX_LENGTH + tag.cfg_len >= size
        oob_hsize == cfg_info_size + SIZEOF_UINT32 > size
        oob_hdrs == header_size > 0
                    /\ msg + (IF hlen < header_size THEN hlen ELSE hlen - 1) >= size
        oob_early == oob_magic \/ oob_cfg \/ oob_hsize
        oob_body == body_off + body_len >= size
        outcome ==
            IF oob_early /\ env.segv THEN "crashed"
            ELSE IF message_size = 0 /\ env.asserts THEN "aborted"
            ELSE IF oob_hdrs /\ env.fault # "strndup" /\ env.segv THEN "crashed"
            ELSE IF env.fault = "strndup" /\ env.segv THEN "crashed"
            ELSE IF replaced # {} /\ env.fault = "asprintf_id" THEN "exited"
            ELSE IF i_end < NUM_HEADERS THEN "dropped"
            ELSE IF env.fault = "asprintf_path" THEN "exited"
            ELSE IF oob_body /\ env.segv THEN "crashed"
            ELSE "staged"
    IN  [outcome |-> outcome,
         stage_calls |-> IF outcome = "staged" THEN 1 ELSE 0,
         file |-> outcome = "staged" /\ staged.file,
         content |-> IF outcome = "staged" THEN staged.content ELSE <<>>,
         cfg_file |-> tag.cfg_file,
         cfg_info_size |-> cfg_info_size,
         header_size |-> header_size,
         message_size |-> message_size,
         msg |-> msg,
         body_off |-> body_off,
         i_end |-> i_end,
         env |-> env,
         oob |-> oob_early
                 \/ (env.fault # "strndup" /\ oob_hdrs)
                 \/ (outcome = "staged" /\ oob_body)]

(***************************************************************************)
(* What a peer sends on its connection: the record-size field and then the *)
(* bytes of the frame.                                                     *)
(***************************************************************************)
HeaderLine(i, value) == get_header_name(i) \o <<COLON, SP>> \o value \o <<NL>>

\* header i as a client sends it: "1", and a placeholder "P" for the machine id
ClientHeader(i) == HeaderLine(i, IF i = MACHINE_ID_INDEX THEN <<80>> ELSE <<49>>)

\* the header block with every header of the schema, in order
GoodHeaders == Concat([k \in 1..NUM_HEADERS |-> ClientHeader(k - 1)])

\* the header block in reverse order
SwappedHeaders == Concat([k \in 1..NUM_HEADERS |-> ClientHeader(NUM_HEADERS - k)])

\* the header block without its last header
MissingHeaders == Concat([k \in 1..(NUM_HEADERS - 1) |-> ClientHeader(k - 1)])

\* "h" and its terminator
Payload == <<104, NUL>>

\* the bytes after the record-size field (tm_send_record's layout)
Frame(cfg, header_size, headers, payload) ==
    (IF cfg # NULL THEN CFG_PREFIX \o cfg \o <<NUL>> ELSE <<>>)
        \o U32(header_size) \o headers \o payload

\* a well-formed wire: the record size counts its own four bytes
Wire(frame) == U32(Len(frame) + RECORD_SIZE_LEN) \o frame

GoodFrame == Frame(NULL, Len(GoodHeaders), GoodHeaders, Payload)

CfgFrame == Frame(<<112>>, Len(GoodHeaders), GoodHeaders, Payload)

SwappedFrame == Frame(NULL, Len(SwappedHeaders), SwappedHeaders, Payload)

\* a header block length that is the length of the whole buffer
FullLengthFrame == Frame(NULL, Len(GoodFrame), GoodHeaders, Payload)

\* the record buffers the decoder is tried on
DecoderInputs ==
    { GoodFrame, CfgFrame, SwappedFrame, FullLengthFrame,
      Frame(NULL, Len(MissingHeaders), MissingHeaders, Payload),
      \* a header block length beyond the buffer
      Frame(NULL, 100, GoodHeaders, Payload),
      \* an empty header block
      Frame(NULL, 0, <<>>, Payload),
      \* a config tag without its terminator, and nothing else
      CFG_PREFIX \o <<112, 112>>,
      \* a body without its terminator
      Frame(NULL, Len(GoodHeaders), GoodHeaders, <<104>>),
      \* a one-byte record
      <<65>> }

\* the wires of the peers of the daemon
Wires ==
    { Wire(GoodFrame), Wire(FullLengthFrame),
      U32(RECORD_SIZE_LEN), U32(RECORD_SIZE_LEN + 1) \o <<65>>,
      U32(MAX_RECORD_SIZE) \o <<65>>, U32(MAX_RECORD_SIZE + 1) \o <<65>> }

(***************************************************************************)
(* The environment of one call of process_record.                          *)
(***************************************************************************)
Faults == { "none", "strndup", "asprintf_id", "asprintf_path", "fopen_id",
            "mkstemp", "fdopen", "fdopen_unlink", "fprintf" }

\* memory after a buffer: zeroes, or text that ends in a terminator
Tails == { <<NUL>>, <<88, NL, NUL>> }

Envs == [asserts : BOOLEAN, fault : Faults, tail : Tails, segv : BOOLEAN]

\* no fault, assert compiled in, no trap on a read outside the buffer
QuietEnv == [asserts |-> TRUE, fault |-> "none", tail |-> <<NUL>>, segv |-> FALSE]

\* the environments that differ from QuietEnv in one respect
NearEnvs ==
    { [QuietEnv EXCEPT !.fault = f] : f \in Faults }
    \cup { [QuietEnv EXCEPT !.asserts = FALSE], [QuietEnv EXCEPT !.segv = TRUE],
           [QuietEnv EXCEPT !.tail = <<88, NL, NUL>>] }

\* what an uninitialized byte of a local variable may hold
UninitBytes == { 0, 127 }

MachineId(c) == [k \in 1..MACHINE_ID_LEN |-> c]

\* the id file: absent, or as machine_id_write left it
IdFiles == { [exists |-> FALSE, content |-> <<>>, mtime |-> 0],
             [exists |-> TRUE, content |-> MachineId(97), mtime |-> 0],
             [exists |-> TRUE, content |-> MachineId(98), mtime |-> 0] }

Overrides == { NULL, read_machine_id_override(<<111, 118, NL, 120>>) }

(***************************************************************************)
(* The state.                                                              *)
(***************************************************************************)
VARIABLES
    client_head,          \* daemon->client_head: the clients, newest first
    pollfds,              \* daemon->pollfds: the allocated cells
    nfds,                 \* daemon->nfds
    current_alloc,        \* daemon->current_alloc, in bytes
    machine_id_override,  \* daemon->machine_id_override
    idfile,               \* the machine-id file
    spool,                \* the files of the spool directory, oldest first
    proc,                 \* "running", or how the process ended
    pc,                   \* "idle", or "body": handle_client is in its read loop
    hc,                   \* the arguments and locals of the running handle_client
    peer,                 \* the wire of the connection being read, and how much was read
    ret,                  \* the handle_client that has just returned, if one has
    now,                  \* time(NULL)
    upd                   \* the update_machine_id that has just returned, if one has

vars == << client_head, pollfds, nfds, current_alloc, machine_id_override,
           idfile, spool, proc, pc, hc, peer, ret, now, upd >>

NoCall == [index |-> UNINIT, cl |-> NULLPTR, record_size |-> UNINIT, callocs |-> 0]

NoPeer == [wire |-> <<>>, pos |-> 0]

\* the result of a process_record that was not called
NoRecord ==
    [outcome |-> "none", stage_calls |-> 0, file |-> FALSE, content |-> <<>>,
     cfg_file |-> NULL, cfg_info_size |-> 0, header_size |-> 0,
     message_size |-> 0, msg |-> 0, body_off |-> 0, i_end |-> 0, env |-> QuietEnv,
     oob |-> FALSE]

NoRet == [returned |-> FALSE, index |-> UNINIT, cl |-> NULLPTR, why |-> "none",
          processed |-> FALSE, record_size |-> UNINIT, callocs |-> 0,
          decoded |-> 0, terminated |-> 0, removed |-> 0, frees |-> 0,
          closes |-> 0, buf_at_end |-> FALSE, data |-> <<>>, rec |-> NoRecord]

\* no update_machine_id has returned
NoUpdate == [called |-> FALSE, stat |-> "none", result |-> 0, generated |-> FALSE,
             new_id |-> NULL, before |-> [exists |-> FALSE, content |-> <<>>, mtime |-> 0],
             time |-> 0]

\* initialize_probe_daemon, with the override read at start-up
Init ==
    /\ client_head = <<>>
    /\ pollfds = <<>>
    /\ nfds = 0
    /\ current_alloc = UNINIT
    /\ machine_id_override \in Overrides
    /\ idfile = [exists |-> TRUE, content |-> MachineId(97), mtime |-> 0]
    /\ now = 0
    /\ upd = NoUpdate
    /\ spool = <<>>
    /\ proc = "running"
    /\ pc = "idle"
    /\ hc = NoCall
    /\ peer = NoPeer
    /\ ret = NoRet

(***************************************************************************)
(* Accepting a connection: the driver calls add_client and add_pollfd.     *)
(***************************************************************************)
\* what the driver does with add_client's result: a failed allocation is fatal
register_aborts(cl) == cl = NULLPTR

Register(fd, events, client_ok, pollfd_ok) ==
    /\ proc = "running" /\ pc = "idle"
    /\ fd \notin ClientFds(client_head)
    /\ LET a == add_client(client_head, fd, client_ok)
           p == add_pollfd(pollfds, nfds, current_alloc, fd, events, pollfd_ok)
       IN  IF register_aborts(a.cl)
               THEN /\ proc' = "exited"
                    /\ UNCHANGED << client_head, pollfds, nfds, current_alloc >>
           ELSE IF p.exit
               THEN /\ proc' = "exited"
                    /\ client_head' = a.head
                    /\ UNCHANGED << pollfds, nfds, current_alloc >>
           ELSE /\ client_head' = a.head
                /\ pollfds' = p.cells
                /\ nfds' = p.nfds
                /\ current_alloc' = p.alloc
                /\ UNCHANGED proc
    /\ ret' = NoRet
    /\ UNCHANGED << machine_id_override, idfile, spool, pc, hc, peer, now, upd >>

(***************************************************************************)
(* handle_client.                                                          *)
(***************************************************************************)
\* the check with < for <=: a record of the size field alone is let through
record_size_refused_strict(record_size) ==
    record_size < RECORD_SIZE_LEN \/ record_size > MAX_RECORD_SIZE

\* the check of the record size (line 158): TRUE when the record is refused
record_size_refused(record_size) ==
    record_size <= RECORD_SIZE_LEN \/ record_size > MAX_RECORD_SIZE

\* the size without the subtraction of the size field
buf_size_whole(record_size) == record_size

\* line 165: the size of the buffer of a record
buf_size(record_size) == record_size - RECORD_SIZE_LEN

\* the test that takes any received byte for the whole record
record_complete_early(c) == c.offset > 0

\* line 190: the whole record is in the buffer
record_complete(c) == c.offset = c.size

\* free(cl->buf) without cl->buf = NULL
free_buf_dangling(c) == c

\* lines 192-193: free(cl->buf); cl->buf = NULL
free_buf(c) == [c EXCEPT !.buf = NULL]

\* lines 70-72: the buffers remove_client frees, and lines 73-75: the
\* descriptors it closes
remove_client_frees(head, fd) == IF ClientOf(head, fd).buf # NULL THEN 1 ELSE 0

remove_client_closes(head, fd) == IF fd >= 0 THEN 1 ELSE 0

\* the local record_size after the peek wrote pk bytes and the read rd bytes
\* of the wire into it: the bytes neither wrote keep what the stack held
read_record_size(wire, pk, rd, junk) ==
    LET n == IF pk > rd THEN pk ELSE rd
    IN  LE32(Take(wire, n) \o [k \in 1..(SIZEOF_UINT32 - n) |-> junk])

\* end_client: terminate_client, and the record of the call that returns
\* (terminated and removed count the poll entries and the clients it took
\* out, frees the free(cl->buf) of a buffer by handle_client and by
\* remove_client, closes the close(cl->fd); buf_at_end: cl->buf is not NULL
\* when end_client is reached)
EndClient(head, index, cl, why, processed, record_size, callocs, data, r) ==
    LET t == terminate_client(head, pollfds, nfds, cl, index)
    IN  /\ client_head' = t.head
        /\ pollfds' = t.cells
        /\ nfds' = t.nfds
        /\ spool' = IF r.file THEN Append(spool, r.content) ELSE spool
        /\ pc' = "idle"
        /\ hc' = NoCall
        /\ peer' = NoPeer
        /\ ret' = [returned |-> TRUE, index |-> index, cl |-> cl, why |-> why,
                   processed |-> processed, record_size |-> record_size,
                   callocs |-> callocs,
                   decoded |-> IF r.outcome = "none" THEN 0 ELSE 1,
                   terminated |-> nfds - t.nfds,
                   removed |-> Len(head) - Len(t.head),
                   frees |-> (IF processed THEN 1 ELSE 0) + remove_client_frees(head, cl),
                   closes |-> remove_client_closes(head, cl),
                   buf_at_end |-> ClientOf(head, cl).buf # NULL,
                   data |-> data, rec |-> r]
        /\ UNCHANGED << current_alloc, machine_id_override, idfile, proc >>

\* handle_client from its entry to the first read of the body: the driver
\* found the client whose descriptor is at pollfds[index]
HandleClientBegin(index, wire, pk, rd, junk, calloc_ok) ==
    /\ proc = "running" /\ pc = "idle"
    /\ UNCHANGED << now, upd >>
    /\ index < nfds
    /\ pollfds[index + 1].fd \in ClientFds(client_head)
    /\ LET cl == pollfds[index + 1].fd
           c0 == ClientOf(client_head, cl)
           \* lines 124-127
           c1 == IF c0.buf # NULL THEN [c0 EXCEPT !.buf = NULL] ELSE c0
           head1 == SetClient(client_head, cl, c1)
           record_size == read_record_size(wire, pk, rd, junk)
           c2 == [c1 EXCEPT !.buf = <<>>, !.size = buf_size(record_size), !.offset = 0]
       IN  IF pk < 0 THEN
               EndClient(head1, index, cl, "peek_err", FALSE, UNINIT, 0, <<>>, NoRecord)
           ELSE IF pk = 0 THEN
               EndClient(head1, index, cl, "peek_closed", FALSE, UNINIT, 0, <<>>, NoRecord)
           ELSE IF rd < 0 THEN
               EndClient(head1, index, cl, "size_err", FALSE, UNINIT, 0, <<>>, NoRecord)
           ELSE IF rd = 0 THEN
               EndClient(head1, index, cl, "size_closed", FALSE, UNINIT, 0, <<>>, NoRecord)
           ELSE IF record_size_refused(record_size) THEN
               EndClient(head1, index, cl, "bad_size", FALSE, record_size, 0, <<>>,
                         NoRecord)
           ELSE IF ~calloc_ok THEN
               /\ proc' = "exited"
               /\ client_head' = head1
               /\ hc' = [index |-> index, cl |-> cl, record_size |-> record_size,
                         callocs |-> 1]
               /\ ret' = NoRet
               /\ UNCHANGED << pollfds, nfds, current_alloc, machine_id_override,
                               idfile, spool, pc, peer >>
           ELSE
               /\ client_head' = SetClient(client_head, cl, c2)
               /\ pc' = "body"
               /\ hc' = [index |-> index, cl |-> cl, record_size |-> record_size,
                         callocs |-> 1]
               /\ peer' = [wire |-> wire, pos |-> rd]
               /\ ret' = NoRet
               /\ UNCHANGED << pollfds, nfds, current_alloc, machine_id_override,
                               idfile, spool, proc >>

\* one turn of the read loop (lines 175-198): recv returns len
HandleClientBody(len, env) ==
    /\ proc = "running" /\ pc = "body"
    /\ UNCHANGED << now, upd >>
    /\ LET cl == hc.cl
           c == ClientOf(client_head, cl)
           got == SubSeq(peer.wire, peer.pos + 1, peer.pos + len)
           c1 == [c EXCEPT !.buf = c.buf \o got, !.offset = c.offset + len]
           r == process_record(machine_id_override, idfile, c1.buf, c1.size, env)
           c2 == free_buf(c1)
       IN  /\ len <= c.size - c.offset
           /\ len <= Len(peer.wire) - peer.pos
           /\ IF len < 0 THEN
                  EndClient(client_head, hc.index, cl, "body_err", FALSE,
                            hc.record_size, hc.callocs, <<>>, NoRecord)
              ELSE IF len = 0 THEN
                  EndClient(client_head, hc.index, cl, "body_closed", FALSE,
                            hc.record_size, hc.callocs, <<>>, NoRecord)
              ELSE IF record_complete(c1) THEN
                  IF r.outcome \in {"staged", "dropped"}
                      THEN EndClient(SetClient(client_head, cl, c2), hc.index, cl,
                                     "complete", TRUE, hc.record_size, hc.callocs,
                                     c1.buf, r)
                      ELSE /\ proc' = r.outcome
                           /\ client_head' = SetClient(client_head, cl, c1)
                           /\ peer' = [peer EXCEPT !.pos = peer.pos + len]
                           /\ UNCHANGED << pollfds, nfds, current_alloc,
                                           machine_id_override, idfile, spool, pc,
                                           hc, ret >>
              ELSE
                  /\ client_head' = SetClient(client_head, cl, c1)
                  /\ peer' = [peer EXCEPT !.pos = peer.pos + len]
                  /\ UNCHANGED << pollfds, nfds, current_alloc, machine_id_override,
                                  idfile, spool, proc, pc, hc, ret >>

\* the bytes the running handle_client asks recv for, and those the peer has
\* still to send
Wanted == ClientOf(client_head, hc.cl).size - ClientOf(client_head, hc.cl).offset

Unsent == Len(peer.wire) - peer.pos

\* the lengths a recv may return: an error, the end of the stream, one
\* segment, or everything that is asked for and there
SegLen == 7

RecvLens ==
    LET most == IF Wanted < Unsent THEN Wanted ELSE Unsent
    IN  { 0 - 1, 0 } \cup { n \in { SegLen, most } : n >= 1 /\ n <= most }

\* the lengths a recv of the size field may return: one byte, or all of it
SizeLens(wire) ==
    { 1, IF Len(wire) < RECORD_SIZE_LEN THEN Len(wire) ELSE RECORD_SIZE_LEN }

\* the connections the driver accepts: the descriptor and the events it asks for
Registrations(max) ==
    { [fd |-> f, events |-> IF f % 2 = 1 THEN POLLIN ELSE POLLIN + POLLPRI] :
        f \in 3..(max + 2) }

\* a connection is accepted while fewer than max are live
Accept(max) ==
    /\ Len(client_head) < max
    /\ \E reg \in Registrations(max), client_ok \in BOOLEAN, pollfd_ok \in BOOLEAN :
           Register(reg.fd, reg.events, client_ok, pollfd_ok)

\* handle_client on a connection whose peek or whose read of the size fails
BeginRefused ==
    \E index \in 0..(nfds - 1) :
        \/ \E pk \in { 0 - 1, 0 } : HandleClientBegin(index, <<>>, pk, 0, 0, TRUE)
        \/ \E pk \in 1..RECORD_SIZE_LEN, rd \in { 0 - 1, 0 } :
               HandleClientBegin(index, <<>>, pk, rd, 0, TRUE)

\* handle_client on a connection whose peer sent (part of) a size field
BeginRead ==
    /\ Len(spool) < MaxSpool
    /\ \E index \in 0..(nfds - 1), wire \in Wires, calloc_ok \in BOOLEAN :
           \E rd \in SizeLens(wire), pk \in SizeLens(wire) :
               /\ pk <= rd
               /\ \E junk \in IF rd < SIZEOF_UINT32 THEN UninitBytes ELSE { 0 } :
                      HandleClientBegin(index, wire, pk, rd, junk, calloc_ok)

\* a recv of the body returns; process_record runs in one of envs
ReadBody(envs) ==
    /\ pc = "body"
    /\ \E len \in RecvLens :
           IF len = Wanted
               THEN \E env \in envs : HandleClientBody(len, env)
               ELSE HandleClientBody(len, QuietEnv)

Next == Accept(MaxClients) \/ BeginRefused \/ BeginRead \/ ReadBody(NearEnvs)

\* the daemon: connections come and go, records are read, decoded and staged
Spec == Init /\ [][Next]_vars

NextTable == Accept(MaxTable) \/ BeginRefused

\* the client list and the poll array alone: connections are accepted, and
\* ended by handle_client before a record is read
SpecTable == Init /\ [][NextTable]_vars

\* one connection whose size field was read and whose buffer is allocated
InitDecode ==
    \E frame \in DecoderInputs :
        /\ client_head = << [fd |-> 3, offset |-> 0, buf |-> <<>>, size |-> Len(frame)] >>
        /\ pollfds = << PollEntry(3, POLLIN) >>
        /\ nfds = 1
        /\ current_alloc = SIZEOF_POLLFD
        /\ machine_id_override \in Overrides
        /\ idfile \in IdFiles
        /\ spool = <<>>
        /\ proc = "running"
        /\ pc = "body"
        /\ hc = [index |-> 0, cl |-> 3, record_size |-> Len(frame) + RECORD_SIZE_LEN,
                 callocs |-> 1]
        /\ peer = [wire |-> Wire(frame), pos |-> RECORD_SIZE_LEN]
        /\ ret = NoRet
        /\ now = 0
        /\ upd = NoUpdate

NextDecode == ReadBody(Envs)

\* the same, when every recv that is waited for returns in the end
SpecDecodeFair == InitDecode /\ [][NextDecode]_vars /\ WF_vars(NextDecode)

\* the clock is followed up to this time
MaxTime == TM_MACHINE_ID_EXPIRY + 2

\* the ids get_random_id may give, and NULL when it fails
RandomIds == { NULL, MachineId(99), MachineId(100) }

\* what stat(2) may say of the id file
StatResults(idf) == IF idf.exists THEN { "ok", "error" } ELSE { "ENOENT", "error" }

\* time passes
Tick ==
    /\ now < MaxTime
    /\ now' = now + 1
    /\ upd' = NoUpdate
    /\ UNCHANGED << client_head, pollfds, nfds, current_alloc, machine_id_override,
                    idfile, spool, proc, pc, hc, peer, ret >>

\* the id file is removed from outside the daemon
RemoveIdFile ==
    /\ idfile.exists
    /\ idfile' = [exists |-> FALSE, content |-> <<>>, mtime |-> 0]
    /\ upd' = NoUpdate
    /\ UNCHANGED << client_head, pollfds, nfds, current_alloc, machine_id_override,
                    spool, proc, pc, hc, peer, ret, now >>

\* the daemon calls update_machine_id
UpdateMachineId ==
    /\ proc = "running" /\ pc = "idle"
    /\ \E stat \in StatResults(idfile), new_id \in RandomIds,
          fopen_ok \in BOOLEAN, fprintf_ok \in BOOLEAN :
           LET u == update_machine_id(idfile, stat, new_id, fopen_ok, fprintf_ok, now)
           IN  /\ idfile' = u.idf
               /\ upd' = [called |-> TRUE, stat |-> stat, result |-> u.result,
                          generated |-> u.generated, new_id |-> new_id,
                          before |-> idfile, time |-> now]
    /\ UNCHANGED << client_head, pollfds, nfds, current_alloc, machine_id_override,
                    spool, proc, pc, hc, peer, ret, now >>

NextMachineId == Tick \/ RemoveIdFile \/ UpdateMachineId

\* the machine-id file as time passes and update_machine_id is called
SpecMachineId == Init /\ [][NextMachineId]_vars

\* the decoder and the stager on every record buffer of DecoderInputs, in
\* every environment
SpecDecode == InitDecode /\ [][NextDecode]_vars

(***************************************************************************)
(* Properties.  ret describes the handle_client that has just returned:    *)
(* which client, at which index, by which way out, and what was decoded.   *)
(***************************************************************************)
\* the descriptors of the poll entries in use
PollFds == { pollfds[k].fd : k \in 1..nfds }

\* the call that has just returned left no trace of a record
NothingStaged ==
    /\ ret.decoded = 0
    /\ ret.rec.stage_calls = 0
    /\ ~ret.rec.file

\* the call that has just returned took its connection out of both tables
ConnectionTerminated ==
    /\ ret.terminated = 1
    /\ ret.removed = 1
    /\ ret.cl \notin ClientFds(client_head)
    /\ ret.cl \notin PollFds

\* C1: a record size of at most 4 or above MAX_RECORD_SIZE ends the
\* connection before any buffer is allocated, with no decode and no staged
\* file; every other size is accepted, and the buffer that is allocated
\* holds record_size - 4 bytes.
C1_RecordSizeCheck ==
    /\ (ret.returned /\ ret.record_size # UNINIT
          /\ (ret.record_size <= 4 \/ ret.record_size > MAX_RECORD_SIZE))
       => /\ ret.why = "bad_size"
          /\ ret.callocs = 0
          /\ NothingStaged
          /\ ConnectionTerminated
    /\ ret.why = "bad_size"
       => (ret.record_size <= 4 \/ ret.record_size > MAX_RECORD_SIZE)
    /\ hc.callocs = 1
       => /\ hc.record_size > 4
          /\ hc.record_size <= MAX_RECORD_SIZE
    /\ pc = "body"
       => /\ hc.callocs = 1
          /\ ClientOf(client_head, hc.cl).buf # NULL
          /\ ClientOf(client_head, hc.cl).size = hc.record_size - 4

\* a size field of exactly 4 has been refused
C1_Witness ==
    /\ ret.returned
    /\ ret.why = "bad_size"
    /\ ret.record_size = 4
    /\ ret.callocs = 0

\* C2: whichever way handle_client returns, it has taken the connection's
\* poll entry and the connection out exactly once, and has handed at most
\* one record to the decoder (none unless the whole body was received).
C2_TerminatedOnce ==
    ret.returned
    => /\ ConnectionTerminated
       /\ ret.decoded <= 1
       /\ (ret.decoded = 1) = (ret.why = "complete")
       /\ ret.why \in { "peek_err", "peek_closed", "size_err", "size_closed",
                        "bad_size", "body_err", "body_closed", "complete" }

\* a call that received the whole body has returned, with one record decoded
C2_Witness ==
    /\ ret.returned
    /\ ret.why = "complete"
    /\ ret.decoded = 1
    /\ ret.terminated = 1

C5_Compaction ==
    [][ (ret'.returned /\ ret' # ret)
        => LET i == ret'.index
           IN  /\ i >= 0 /\ i < nfds
               /\ nfds' = nfds - 1
               /\ \A j \in 0..(nfds - 1) :
                      /\ j < i => pollfds'[j + 1] = pollfds[j + 1]
                      /\ j > i => pollfds'[j] = pollfds[j + 1]
               /\ Len(client_head') = nfds' ]_vars

\* the first of three entries was removed
C5_Witness ==
    /\ ret.returned
    /\ ret.index = 0
    /\ nfds = 2

\* the header block of the record that was decoded, as the wire format lays
\* it out: header_size bytes after the header-size field (as many of them as
\* the record holds)
RetHeaderBlock ==
    LET last == IF ret.rec.msg + ret.rec.header_size < Len(ret.data)
                    THEN ret.rec.msg + ret.rec.header_size
                    ELSE Len(ret.data)
    IN  SubSeq(ret.data, ret.rec.msg + 1, last)

\* the lines of that header block
RetHeaderLines == strtok_all(RetHeaderBlock, NL)

\* line i of the header block is "<name of header i>: ..."
HeaderInPlace(lines, i) ==
    /\ i < Len(lines)
    /\ Len(lines[i + 1]) >= Len(get_header_name(i)) + 2
    /\ SubSeq(lines[i + 1], 1, Len(get_header_name(i)) + 2)
           = get_header_name(i) \o <<COLON, SP>>

\* C6: when a header of the schema is missing from the header block of a
\* complete record, or is not at its position, the stager is not called
\* and no file is written; the record is dropped, the connection is
\* terminated all the same, and the daemon runs on.
C6_BadHeadersDropped ==
    (/\ ret.returned
     /\ ret.why = "complete"
     /\ \E i \in 0..(NUM_HEADERS - 1) : ~HeaderInPlace(RetHeaderLines, i))
    => /\ ret.rec.outcome = "dropped"
       /\ ret.rec.stage_calls = 0
       /\ ~ret.rec.file
       /\ spool = <<>>
       /\ ConnectionTerminated
       /\ proc = "running"

\* the record whose headers are in reverse order was dropped
C6_Witness ==
    /\ ret.returned
    /\ ret.why = "complete"
    /\ ret.data = SwappedFrame
    /\ ret.rec.outcome = "dropped"
    /\ spool = <<>>

\* the header lines of the file the stager wrote: the lines after the
\* config line, if the record had a config tag
StagedHeaderLines ==
    LET lines == strtok_all(ret.rec.content, NL)
    IN  IF ret.rec.cfg_file # NULL THEN Tail(lines) ELSE lines

\* the id the daemon stamps on a record: the override when one is set, else
\* the contents of the id file, else (no file to read) the sentinel "0"
StampedId ==
    IF machine_id_override # NULL THEN machine_id_override
    ELSE IF idfile.exists /\ ret.rec.env.fault # "fopen_id" THEN idfile.content
    ELSE <<ZERO_CHAR>>

C8_MessageSizeIsBodyLength ==
    (ret.returned /\ ret.why = "complete")
    => ret.rec.message_size = Len(ret.data) - ret.rec.body_off

\* C9 as stated: no input of a client ends the daemon by a failed assertion.
C9_NoAssertionFailure ==
    proc # "aborted"

\* the ways out of handle_client after a failed recv or a closed stream
TransportErrors == { "peek_err", "size_err", "size_closed", "body_err", "body_closed" }

\* C10: a recv that fails, or a peer that closes within a frame, ends that
\* connection alone: no record is decoded or staged, the daemon runs on,
\* and every other client and every other poll entry is as it was.
C10_TransportErrorIsLocal ==
    [][ (ret'.returned /\ ret' # ret /\ ret'.why \in TransportErrors)
        => /\ proc' = "running"
           /\ spool' = spool
           /\ ret'.decoded = 0
           /\ ret'.rec.stage_calls = 0
           /\ ret'.cl \notin ClientFds(client_head')
           /\ Len(client_head') = Len(client_head) - 1
           /\ nfds' = nfds - 1
           /\ \A c \in Range(client_head) :
                  c.fd # ret'.cl => c \in Range(client_head')
           /\ \A k \in 1..nfds :
                  pollfds[k].fd # ret'.cl
                  => \E j \in 1..nfds' : pollfds'[j] = pollfds[k] ]_vars

\* a peer closed within the body of its frame while another client is live
C10_Witness ==
    /\ ret.returned
    /\ ret.why = "body_closed"
    /\ ret.decoded = 0
    /\ nfds = 1
    /\ proc = "running"

\* C11 as stated: an allocation that fails ends the process at once.  Here
\* for the decoder's copy of the header block: no process_record in which
\* strndup failed has returned to a daemon that runs on.
C11_AllocationFailureIsFatal ==
    (proc = "running" /\ ret.returned /\ ret.processed)
    => ret.rec.env.fault # "strndup"

\* the faults of stage_record: the file cannot be created, or a write fails
StagingFaults == { "mkstemp", "fdopen", "fprintf" }

\* C12 as stated: when the staging file cannot be created or a write to
\* it fails, no file of the record, whole or partial, is in the spool, and
\* the daemon runs on.
C12_NoFileOnStagingFailure ==
    (ret.returned /\ ret.rec.stage_calls = 1 /\ ret.rec.env.fault \in StagingFaults)
    => /\ ~ret.rec.file
       /\ spool = <<>>
       /\ proc = "running"

\* the record that was decoded starts with the config marker
CarriesCfgTag ==
    /\ Len(ret.data) >= CFG_PREFIX_LENGTH
    /\ SubSeq(ret.data, 1, CFG_PREFIX_LENGTH) = CFG_PREFIX

\* the string at offset off of the record that was decoded: the bytes up to
\* the first NUL (up to the end of the record when there is none)
RetString(off) ==
    LET nuls == { k \in (off + 1)..Len(ret.data) : ret.data[k] = NUL }
    IN  SubSeq(ret.data, off + 1, IF nuls = {} THEN Len(ret.data) ELSE Min(nuls) - 1)

\* header line i of a staged file, as the claims C7 and C13 have it
ExpectedHeaderLine(i) ==
    IF i = MACHINE_ID_INDEX
        THEN TM_MACHINE_ID_STR \o <<COLON, SP>> \o StampedId
        ELSE RetHeaderLines[i + 1]

\* the config line, if the record carried a tag, and the header lines
ExpectedHead ==
    (IF CarriesCfgTag THEN CFG_PREFIX \o RetString(CFG_PREFIX_LENGTH) \o <<NL>>
                      ELSE <<>>)
        \o Concat([k \in 1..NUM_HEADERS |-> ExpectedHeaderLine(k - 1) \o <<NL>>])

\* the stager wrote the whole file
SuccessfullyStaged ==
    /\ ret.returned
    /\ ret.rec.file
    /\ ret.rec.env.fault \notin { "fdopen_unlink", "fprintf" }

\* C13: a successfully staged file is the config line (the marker and the
\* exact path) if and only if the record carried a config tag, then the
\* header lines in schema order, then the body, each followed by one
\* newline, and nothing else.  (The body is compared when the decoder
\* stayed inside the record.)
C13_StagedFileLayout ==
    SuccessfullyStaged
    => /\ Len(RetHeaderLines) >= NUM_HEADERS
       /\ Len(ret.rec.content) > Len(ExpectedHead)
       /\ Take(ret.rec.content, Len(ExpectedHead)) = ExpectedHead
       /\ ret.rec.content[Len(ret.rec.content)] = NL
       /\ ~ret.rec.oob
          => ret.rec.content
                 = ExpectedHead \o RetString(ret.rec.body_off) \o <<NL>>
       /\ spool = << ret.rec.content >>

\* a record with a config tag was staged: the file starts with the marker
\* and the path
C13_Witness ==
    /\ SuccessfullyStaged
    /\ ret.data = CfgFrame
    /\ ~ret.rec.oob
    /\ Take(ret.rec.content, CFG_PREFIX_LENGTH + 2) = CFG_PREFIX \o <<112, NL>>

\* the id file was there and not older than the expiry when the update
\* that has just returned looked at it
FreshBefore ==
    /\ upd.before.exists
    /\ upd.time - upd.before.mtime <= TM_MACHINE_ID_EXPIRY

\* C14: update_machine_id (when stat can tell) regenerates the id file
\* exactly when the file is absent or its age is strictly greater than
\* TM_MACHINE_ID_EXPIRY, and what a successful regeneration leaves is the
\* new id; for a file that is there and not expired it changes nothing and
\* returns 0.
C14_UpdateMachineId ==
    (upd.called /\ upd.stat # "error")
    => /\ upd.generated = ~FreshBefore
       /\ FreshBefore => (idfile = upd.before /\ upd.result = 0)
       /\ (upd.generated /\ upd.result = 0)
          => /\ idfile.exists
             /\ idfile.content = upd.new_id
             /\ idfile.mtime = upd.time
       /\ ~upd.generated => idfile = upd.before

\* an update at an age of exactly the expiry has left the file alone
C14_Witness ==
    /\ upd.called
    /\ upd.stat = "ok"
    /\ upd.time - upd.before.mtime = TM_MACHINE_ID_EXPIRY
    /\ ~upd.generated
    /\ upd.result = 0
    /\ idfile = upd.before

\* C15 as stated: when the read of the body starts, the record size that
\* was validated is the four-byte prefix the client sent, and exactly four
\* bytes of the stream have been consumed, however few bytes the peek and
\* the read of the size field returned.
C15_SizeReadConsumesFour ==
    pc = "body"
    => /\ hc.record_size = LE32(Take(peer.wire, RECORD_SIZE_LEN))
       /\ peer.pos = RECORD_SIZE_LEN

\* the client whose record handle_client is reading
InFlight(c) == pc = "body" /\ c.fd = hc.cl

\* C16: for every client, the bytes received never exceed the capacity of
\* its buffer, the capacity is record_size - 4, and the buffer is there
\* only while a record is in flight: not before a size was accepted, and
\* not after the record went to the decoder.
C16_BufferInvariant ==
    /\ \A k \in DOMAIN client_head :
           LET c == client_head[k]
           IN  IF InFlight(c)
                   THEN /\ c.buf # NULL
                        /\ c.offset = Len(c.buf)
                        /\ c.offset <= c.size
                        /\ c.size = hc.record_size - 4
                   ELSE /\ c.buf = NULL
                        /\ c.offset = 0
    /\ (ret.returned /\ ret.processed)
       => /\ ~ret.buf_at_end
          /\ Len(ret.data) = ret.record_size - 4

\* a record is in flight with part of its body received
C16_Witness ==
    /\ pc = "body"
    /\ proc = "running"
    /\ ClientOf(client_head, hc.cl).offset > 0
    /\ ClientOf(client_head, hc.cl).offset < ClientOf(client_head, hc.cl).size

\* what holds of a handle_client that has returned from its read loop
BodyReadOutcome ==
    ret.returned
    => /\ ret.processed = (ret.why = "complete")
       /\ ret.processed
          => /\ ret.decoded = 1
             /\ Len(ret.data) = ret.record_size - RECORD_SIZE_LEN
       /\ ret.why \in { "body_err", "body_closed" }
          => /\ NothingStaged
             /\ spool = <<>>
             /\ ret.frees = 1
             /\ ConnectionTerminated

\* the read loop goes on only while the buffer is not full
BodyReadGoesOn ==
    (pc = "body" /\ proc = "running")
    => ClientOf(client_head, hc.cl).offset < ClientOf(client_head, hc.cl).size

\* a step of the read loop is a recv that returned: with bytes, with the end
\* of the stream, or with an error
BodyReadStep ==
    pc = "body"
    => \/ ret'.returned /\ ret'.why \in { "body_err", "body_closed", "complete" }
       \/ /\ peer'.pos > peer.pos
          /\ ~ret'.returned
          /\ pc' = "body"

\* C17: the read loop hands the record to process_record exactly when the
\* bytes received equal the length of the buffer; when the peer closes
\* early or a recv fails, the partial data is freed and nothing is staged;
\* handle_client moves only when a recv returns, and if every recv returns
\* in the end it terminates.
C17_BodyRead ==
    /\ []BodyReadOutcome
    /\ []BodyReadGoesOn
    /\ [][BodyReadStep]_vars
    /\ (pc = "body") ~> (pc = "idle" \/ proc # "running")

\* the peer closed before the whole body was sent: the call has returned
C17_Witness ==
    /\ ret.returned
    /\ ret.why = "body_closed"
    /\ ~ret.processed
    /\ ret.frees = 1
    /\ pc = "idle"

\* C18: from the moment the size field of a connection is accepted until
\* that connection is terminated, every step is a step of that connection:
\* no client is added, no other client and no other poll entry changes or
\* goes, and what is decoded, staged or removed is this connection's.
C18_NoInterleaving ==
    [][ pc = "body"
        => /\ ClientFds(client_head') \subseteq ClientFds(client_head)
           /\ \A c \in Range(client_head) :
                  c.fd # hc.cl => c \in Range(client_head')
           /\ \A k \in 1..nfds :
                  pollfds[k].fd # hc.cl
                  => \E j \in 1..nfds' : pollfds'[j] = pollfds[k]
           /\ pc' = "body" => (hc' = hc /\ peer'.wire = peer.wire)
           /\ ret'.returned => ret'.cl = hc.cl
           /\ spool' # spool => (ret'.returned /\ ret'.cl = hc.cl) ]_vars

\* a record is in flight while another connection is live
C18_Witness ==
    /\ pc = "body"
    /\ proc = "running"
    /\ nfds = 2
    /\ Len(client_head) = 2
    /\ ClientOf(client_head, hc.cl).offset > 0

\* C19: on every way out of handle_client the buffer of the connection has
\* been freed exactly once if one was allocated (by handle_client after the
\* decoder, or else by remove_client) and never otherwise, the descriptor
\* has been closed once, and the client is gone from the list.
C19_FreedOnce ==
    ret.returned
    => /\ ret.frees = ret.callocs
       /\ ret.closes = 1
       /\ ret.processed => (~ret.buf_at_end /\ ret.callocs = 1)
       /\ ret.why \in { "body_err", "body_closed" } => (ret.buf_at_end /\ ret.frees = 1)
       /\ ret.cl \notin ClientFds(client_head)

\* a record was decoded and its connection removed: one calloc, one free
C19_Witness ==
    /\ ret.returned
    /\ ret.processed
    /\ ret.callocs = 1
    /\ ret.frees = 1
    /\ ret.closes = 1

\* C20 as stated: for every record buffer that was decoded, the config tag
\* with its terminator, the header-size field, the header block and the
\* body offset lie within the cl->size bytes of the buffer.
C20_DecoderReadsInBounds ==
    (ret.returned /\ ret.processed)
    => /\ ret.rec.cfg_info_size <= Len(ret.data)
       /\ ret.rec.msg <= Len(ret.data)
       /\ ret.rec.msg + ret.rec.header_size <= Len(ret.data)
       /\ ret.rec.body_off <= Len(ret.data)

====
